---- MODULE Spec2Model ----
(***************************************************************************)
(* A model of library/constant_time.c: the constant-flow mask, select and  *)
(* comparison primitives, the big-integer conditional operations and the   *)
(* RSAES-PKCS1-v1_5 unpadding routine.                                       *)
(*                                                                         *)
(* Machine words are modelled as naturals reduced modulo 2^width.  Bytes   *)
(* keep their 8 bits; unsigned, size_t and mbedtls_mpi_uint are modelled   *)
(* with the scaled-down widths UIntBits, SizeBits and LimbBits so that the *)
(* wrap-around cases stay inside the range of the model checker.           *)
(* C arrays are functions with domain 0..n-1, indexed as in the source.    *)
(***************************************************************************)
EXTENDS Integers, Sequences, FiniteSets, TLC

(* ----------------------------- bounds ---------------------------------- *)
\* width of `unsigned` / `int` in the model
UIntBits == 16
\* width of `size_t` in the model
SizeBits == 16
\* width of `mbedtls_mpi_uint` (one limb) in the model
LimbBits == 2
\* largest limb count of a big integer
MaxLimbs == 2
\* largest length of the RSA block handed to the unpadding
MaxIlen == 13
\* largest output_max_len handed to the unpadding
MaxOut == 2
\* most zero bytes among bytes 2..10 of the blocks handed to the unpadding
MaxPadZeros == 2
\* most calls of mbedtls_mpi_safe_cond_swap made in a row on one pair
MaxCalls == 2
\* largest len handed to mbedtls_ct_memcpy_offset
MaxLen == 2
\* largest offset_min and offset_max handed to mbedtls_ct_memcpy_offset
MaxOffset == 2
\* largest total handed to mbedtls_ct_mem_move_to_left called on its own
MaxTotal == 4
\* half-width of the neighbourhoods of 0, 2^(W-1) and 2^W-1 compared
CmpSpread == 2

(* ------------------------ program constants ---------------------------- *)
\* number of bits of an unsigned char
CHAR_BIT == 8
\* EME-PKCS1-v1_5 block type for encryption
MBEDTLS_RSA_CRYPT == 2
\* smallest RSA block the unpadding is called with: 3 framing + 8 padding bytes
MinIlen == 11
\* -MBEDTLS_ERR_RSA_INVALID_PADDING
INVALID_PADDING == 16640
\* -MBEDTLS_ERR_RSA_OUTPUT_TOO_LARGE
OUTPUT_TOO_LARGE == 17408
\* -MBEDTLS_ERR_ERROR_CORRUPTION_DETECTED
CORRUPTION_DETECTED == 110
\* -MBEDTLS_ERR_MPI_BAD_INPUT_DATA
BAD_INPUT_DATA == 4
\* -MBEDTLS_ERR_MPI_ALLOC_FAILED
ALLOC_FAILED == 16

(* --------------------- machine words, bit by bit ----------------------- *)
Pow2(n) == 2 ^ n

\* value of a w-bit unsigned after a wrapping operation
Wrap(w, v) == v % Pow2(w)

\* unary minus on a w-bit unsigned
Neg(w, v) == Wrap(w, Pow2(w) - Wrap(w, v))

\* ~v on a w-bit unsigned
Not(w, v) == Pow2(w) - 1 - Wrap(w, v)

\* v >> k on an unsigned
Shr(v, k) == v \div Pow2(k)

RECURSIVE BitAnd(_, _)
BitAnd(a, b) ==
    IF a = 0 \/ b = 0 THEN 0
    ELSE ((a % 2) * (b % 2)) + (2 * BitAnd(a \div 2, b \div 2))

RECURSIVE BitOr(_, _)
BitOr(a, b) ==
    IF a = 0 THEN b
    ELSE IF b = 0 THEN a
    ELSE (IF (a % 2) + (b % 2) > 0 THEN 1 ELSE 0) + (2 * BitOr(a \div 2, b \div 2))

RECURSIVE BitXor(_, _)
BitXor(a, b) ==
    IF a = 0 THEN b
    ELSE IF b = 0 THEN a
    ELSE (((a % 2) + (b % 2)) % 2) + (2 * BitXor(a \div 2, b \div 2))

\* (unsigned) of an int: two's complement reduction
ToUnsigned(v) == v % Pow2(UIntBits)

\* (int) of an unsigned: the value with the top bit as sign
ToInt(u) == IF u >= Pow2(UIntBits - 1) THEN u - Pow2(UIntBits) ELSE u

(* --------------------------- mask primitives --------------------------- *)
\* the mask taken from the low bit alone: right for 0 and 1 only
uint_mask_of_low_bit(value) == Neg(UIntBits, value % 2)

mbedtls_ct_uint_mask(value) ==
    Neg(UIntBits, Shr(BitOr(value, Neg(UIntBits, value)), UIntBits - 1))

mbedtls_ct_size_mask(value) ==
    Neg(SizeBits, Shr(BitOr(value, Neg(SizeBits, value)), SizeBits - 1))

mbedtls_ct_mpi_uint_mask(value) ==
    Neg(LimbBits, Shr(BitOr(value, Neg(LimbBits, value)), LimbBits - 1))

(* ------------------------ comparison primitives ------------------------ *)
mbedtls_ct_size_mask_lt(x, y) ==
    LET sub == Wrap(SizeBits, x - y)
        sub1 == Shr(sub, SizeBits - 1)
    IN  mbedtls_ct_size_mask(sub1)

mbedtls_ct_size_mask_ge(x, y) == Not(SizeBits, mbedtls_ct_size_mask_lt(x, y))

mbedtls_ct_size_bool_eq(x, y) ==
    LET diff == BitXor(x, y)
        diff_msb == BitOr(diff, Neg(SizeBits, diff))
        diff1 == Shr(diff_msb, SizeBits - 1)
    IN  BitXor(1, diff1)

mbedtls_ct_size_gt(x, y) == Shr(Wrap(SizeBits, y - x), SizeBits - 1)

\* the comparison by the top bit of x - y alone, without the case of
\* operands whose most significant bits differ
mpi_uint_lt_by_difference(x, y) ==
    Shr(Wrap(LimbBits, x - y), LimbBits - 1)

mbedtls_ct_mpi_uint_lt(x, y) ==
    LET cond == BitXor(x, y)
        ret1 == BitAnd(Wrap(LimbBits, x - y), Not(LimbBits, cond))
        ret2 == BitOr(ret1, BitAnd(y, cond))
    IN  Shr(ret2, LimbBits - 1)

mbedtls_ct_uint_if(condition, if1, if0) ==
    LET mask == mbedtls_ct_uint_mask(condition)
    IN  BitOr(BitAnd(mask, if1), BitAnd(Not(UIntBits, mask), if0))

(* ------------------- flow-independent left shift ----------------------- *)
\* one memory access: kind "r" or "w", the buffer, the index in it
Access(kind, buffer, index) == <<kind, buffer, index>>

\* a decision the control flow takes: the condition and its outcome (0 or 1)
Branch(label, taken) == <<"if", label, IF taken THEN 1 ELSE 0>>

\* the inner loop that leaves the last byte of the region as it is
RECURSIVE MoveInner_last_kept(_, _, _, _, _)
MoveInner_last_kept(buf, start, total, no_op, n) ==
    IF n < total - 1
    THEN LET current == buf[start + n]
             next == buf[start + n + 1]
         IN  MoveInner_last_kept(
                 [buf EXCEPT ![start + n] =
                     Wrap(CHAR_BIT, mbedtls_ct_uint_if(no_op, current, next))],
                 start, total, no_op, n + 1)
    ELSE buf

\* the inner loop of one pass, from pair n on; buf is the whole array the
\* shifted region lives in, the region being buf[start .. start+total-1]
RECURSIVE MoveInner(_, _, _, _, _)
MoveInner(buf, start, total, no_op, n) ==
    IF n < total - 1
    THEN LET current == buf[start + n]
             next == buf[start + n + 1]
         IN  MoveInner(
                 [buf EXCEPT ![start + n] =
                     Wrap(CHAR_BIT, mbedtls_ct_uint_if(no_op, current, next))],
                 start, total, no_op, n + 1)
    ELSE [buf EXCEPT ![start + total - 1] =
             Wrap(CHAR_BIT, mbedtls_ct_uint_if(no_op, buf[start + total - 1], 0))]

\* the accesses of one pass: they are indexed by n and bounded by total
RECURSIVE MoveInnerTrace(_, _, _)
MoveInnerTrace(start, total, n) ==
    IF n < total - 1
    THEN << Access("r", "input", start + n),
            Access("r", "input", start + n + 1),
            Access("w", "input", start + n) >>
         \o MoveInnerTrace(start, total, n + 1)
    ELSE << Access("r", "input", start + total - 1),
            Access("w", "input", start + total - 1) >>

\* a pass that compares against i + 1: one shift too many
MovePass_one_more(buf, start, total, offset, i) ==
    LET no_op == mbedtls_ct_size_gt(Wrap(SizeBits, total - offset), i + 1)
    IN  MoveInner(buf, start, total, no_op, 0)

\* pass i of the outer loop
MovePass(buf, start, total, offset, i) ==
    LET no_op == mbedtls_ct_size_gt(Wrap(SizeBits, total - offset), i)
    IN  MoveInner(buf, start, total, no_op, 0)

\* the outer loop from pass i on: the buffer and the accesses made
RECURSIVE MoveOuter(_, _, _, _, _)
MoveOuter(buf, start, total, offset, i) ==
    IF i < total
    THEN LET rest == MoveOuter(MovePass(buf, start, total, offset, i),
                               start, total, offset, i + 1)
         IN  [buf |-> rest.buf,
              trace |-> MoveInnerTrace(start, total, 0) \o rest.trace,
              passes |-> rest.passes + 1]
    ELSE [buf |-> buf, trace |-> << >>, passes |-> 0]

\* a memmove and a memset in place of the passes: the same bytes, but the
\* addresses touched follow offset
RECURSIVE MemmoveTrace(_, _, _, _)
MemmoveTrace(start, total, offset, k) ==
    IF k < total - offset
    THEN << Access("r", "input", start + offset + k),
            Access("w", "input", start + k) >>
         \o MemmoveTrace(start, total, offset, k + 1)
    ELSE IF k < total
    THEN << Access("w", "input", start + k) >>
         \o MemmoveTrace(start, total, offset, k + 1)
    ELSE << >>

mem_move_to_left_memmove(buf, start, total, offset) ==
    [buf |-> [k \in DOMAIN buf |->
                 IF k < start \/ k >= start + total THEN buf[k]
                 ELSE IF k + offset < start + total THEN buf[k + offset]
                 ELSE 0],
     trace |-> << Branch("total == 0", total = 0) >>
               \o MemmoveTrace(start, total, offset, 0),
     passes |-> 0]

\* mbedtls_ct_mem_move_to_left(buf + start, total, offset)
mbedtls_ct_mem_move_to_left(buf, start, total, offset) ==
    IF total = 0
    THEN [buf |-> buf,
          trace |-> << Branch("total == 0", TRUE) >>,
          passes |-> 0]
    ELSE LET r == MoveOuter(buf, start, total, offset, 0)
         IN  [buf |-> r.buf,
              trace |-> << Branch("total == 0", FALSE) >> \o r.trace,
              passes |-> r.passes]

(* --------------------------- conditional copy -------------------------- *)
\* the loop of mbedtls_ct_memcpy_if_eq from byte i on; src is the array the
\* source pointer points into and from the index it points at
RECURSIVE MemcpyIfEqLoop(_, _, _, _, _, _)
MemcpyIfEqLoop(dest, src, from, len, mask, i) ==
    IF i < len
    THEN MemcpyIfEqLoop(
             [dest EXCEPT ![i] =
                 Wrap(CHAR_BIT, BitOr(BitAnd(src[from + i], mask),
                                      BitAnd(dest[i], Not(CHAR_BIT, mask))))],
             src, from, len, mask, i + 1)
    ELSE dest

\* the copy with the 0/1 result of the comparison used as the mask
memcpy_if_eq_bool_as_mask(dest, src, from, len, c1, c2) ==
    LET equal == mbedtls_ct_size_bool_eq(c1, c2)
    IN  MemcpyIfEqLoop(dest, src, from, len, Wrap(CHAR_BIT, equal), 0)

\* mbedtls_ct_memcpy_if_eq(dest, src + from, len, c1, c2), built without
\* MBEDTLS_EFFICIENT_UNALIGNED_ACCESS: the new dest
mbedtls_ct_memcpy_if_eq(dest, src, from, len, c1, c2) ==
    LET equal == mbedtls_ct_size_bool_eq(c1, c2)
        mask == Wrap(CHAR_BIT, mbedtls_ct_size_mask(equal))
    IN  MemcpyIfEqLoop(dest, src, from, len, mask, 0)

(* -------------------------------- state -------------------------------- *)
VARIABLES
    pc,                 \* position of the running call
    input,              \* RSA block, modified in place by the unpadding
    input0,             \* the block as the caller passed it
    ilen,               \* its length
    output,             \* caller's output buffer
    output_max_len,     \* its size
    olen,               \* *olen
    ret,                \* value returned
    bad, pad_done, pad_count,
    plaintext_max_size, plaintext_size, output_too_large,
    move_offset,        \* offset handed to mbedtls_ct_mem_move_to_left
    trace,              \* accesses and branches so far, in program order
    op,                 \* the big-integer function being run
    X, Y,               \* its big-integer operands: [s, n, p]
    X0, Y0,             \* the operands as first passed
    flag,               \* assign / swap argument of the last call
    aliased,            \* X and Y are one object
    lt_i,               \* loop index i of the comparison
    lt_ret,             \* result of the comparison: ret, *ret
    lt_done,            \* `done` of the comparison
    visited,            \* limbs the comparison loop has been through
    mret,               \* int returned by the big-integer function
    calls,              \* calls made on this pair
    nswap,              \* those of them that returned 0 with swap = 1
    cmp,                \* operands and results of the comparisons
    cpy,                \* arguments, buffers and loop state of the copies
    mov                 \* buffer, arguments and loop state of the left shift

unpadVars == << input, input0, ilen, output, output_max_len, olen, ret,
                bad, pad_done, pad_count, plaintext_max_size, plaintext_size,
                output_too_large, move_offset, trace >>

mpiVars == << op, X, Y, X0, Y0, flag, aliased, lt_i, lt_ret, lt_done, visited,
              mret, calls, nswap >>

vars == << pc, unpadVars, mpiVars, cmp, cpy, mov >>

\* a big integer that takes no part in the run
NoMpi == [s |-> 1, n |-> 0, p |-> << >>]

\* the state of the functions a run does not call
UnpadIdle ==
    /\ input = << >> /\ input0 = << >> /\ ilen = 0
    /\ output = << >> /\ output_max_len = 0 /\ olen = 0 /\ ret = 0
    /\ bad = 0 /\ pad_done = 0 /\ pad_count = 0
    /\ plaintext_max_size = 0 /\ plaintext_size = 0
    /\ output_too_large = 0 /\ move_offset = 0 /\ trace = << >>

MpiIdle ==
    /\ op = "none" /\ X = NoMpi /\ Y = NoMpi /\ X0 = NoMpi /\ Y0 = NoMpi
    /\ flag = 0 /\ aliased = FALSE /\ lt_i = 0 /\ lt_ret = 0 /\ lt_done = 0
    /\ visited = 0 /\ mret = 0 /\ calls = 0 /\ nswap = 0

CmpIdle == cmp = [x |-> 0, y |-> 0]

CpyIdle == cpy = [len |-> 0]

MovIdle == mov = [total |-> 0]

(* ----------------------- RSAES-PKCS1-v1_5 unpadding --------------------- *)
\* ((b | (unsigned char) -b) >> 7) ^ 1 : 1 for a zero byte, 0 otherwise
ByteIsZero(b) ==
    BitXor(Shr(BitOr(b, Wrap(CHAR_BIT, 0 - b)), CHAR_BIT - 1), 1)

\* the loop reading the whole block from index i on
RECURSIVE ScanPadding(_, _, _, _, _)
ScanPadding(inp, len, i, done, count) ==
    IF i < len
    THEN LET done1 == BitOr(done, ByteIsZero(inp[i]))
             count1 == Wrap(SizeBits, count + ByteIsZero(done1))
         IN  ScanPadding(inp, len, i + 1, done1, count1)
    ELSE [pad_done |-> done, pad_count |-> count]

\* one load of input[i] in each pass of that loop
RECURSIVE ScanTrace(_, _)
ScanTrace(len, i) ==
    IF i < len
    THEN << Access("r", "input", i) >> \o ScanTrace(len, i + 1)
    ELSE << >>

\* the loop with the mask not complemented: input[i] &= bad
RECURSIVE ScrubLoop_plain_mask(_, _, _, _)
ScrubLoop_plain_mask(inp, len, mask, i) ==
    IF i < len
    THEN ScrubLoop_plain_mask(
             [inp EXCEPT ![i] = Wrap(CHAR_BIT, BitAnd(inp[i], mask))],
             len, mask, i + 1)
    ELSE inp

\* the loop entered one byte late
RECURSIVE ScrubLoop_from_next(_, _, _, _)
ScrubLoop_from_next(inp, len, mask, i) ==
    IF i + 1 < len
    THEN ScrubLoop_from_next(
             [inp EXCEPT ![i + 1] =
                 Wrap(CHAR_BIT, BitAnd(inp[i + 1], Not(UIntBits, mask)))],
             len, mask, i + 1)
    ELSE inp

\* for (i = 11; i < ilen; i++) input[i] &= ~bad;
RECURSIVE ScrubLoop(_, _, _, _)
ScrubLoop(inp, len, mask, i) ==
    IF i < len
    THEN ScrubLoop([inp EXCEPT ![i] =
                       Wrap(CHAR_BIT, BitAnd(inp[i], Not(UIntBits, mask)))],
                   len, mask, i + 1)
    ELSE inp

RECURSIVE ScrubTrace(_, _)
ScrubTrace(len, i) ==
    IF i < len
    THEN << Access("r", "input", i), Access("w", "input", i) >>
         \o ScrubTrace(len, i + 1)
    ELSE << >>

\* memcpy(dst, src + from, n)
Memcpy(dst, src, from, n) ==
    [k \in DOMAIN dst |-> IF k < n THEN src[from + k] ELSE dst[k]]

RECURSIVE MemcpyTrace(_, _, _)
MemcpyTrace(from, n, k) ==
    IF k < n
    THEN << Access("r", "input", from + k), Access("w", "output", k) >>
         \o MemcpyTrace(from, n, k + 1)
    ELSE << >>

\* bytes the blocks are drawn from: first byte, block type, padding string
\* and separator positions, message positions
FirstBytes == {0, 128}
TypeBytes == {MBEDTLS_RSA_CRYPT, 3}
PadBytes == {0, 165}
MsgBytes == {0, 1, 255}

\* bytes 2..10 of a block: the padding string, with the separator or not
PadStrings ==
    { ps \in [2..(MinIlen - 1) -> PadBytes] :
        Cardinality({ k \in 2..(MinIlen - 1) : ps[k] = 0 }) <= MaxPadZeros }

UnpadInit ==
    /\ pc = "start"
    /\ ilen \in MinIlen..MaxIlen
    /\ output_max_len \in 0..MaxOut
    /\ \E b0 \in FirstBytes, b1 \in TypeBytes,
          ps \in PadStrings,
          msg \in [MinIlen..(ilen - 1) -> MsgBytes] :
            input = [k \in 0..(ilen - 1) |->
                        IF k = 0 THEN b0
                        ELSE IF k = 1 THEN b1
                        ELSE IF k < MinIlen THEN ps[k]
                        ELSE msg[k]]
    /\ input0 = input
    /\ output = [k \in 0..(output_max_len - 1) |-> 204]
    /\ olen = Pow2(SizeBits) - 1
    /\ ret = 0 - CORRUPTION_DETECTED
    /\ bad = 0
    /\ pad_done = 0
    /\ pad_count = 0
    /\ plaintext_max_size = 0
    /\ plaintext_size = 0
    /\ output_too_large = 0
    /\ move_offset = 0
    /\ trace = << >>
    /\ MpiIdle
    /\ CmpIdle
    /\ CpyIdle
    /\ MovIdle

\* lines 649-673: the size limit, the first two bytes, the scan of the block
UnpadCheckPadding ==
    /\ pc = "start"
    /\ LET max == IF output_max_len > ilen - MinIlen
                  THEN ilen - MinIlen ELSE output_max_len
           bad0 == BitOr(0, input[0])
           bad1 == BitOr(bad0, BitXor(input[1], MBEDTLS_RSA_CRYPT))
           scan == ScanPadding(input, ilen, 2, 0, 0)
           bad2 == BitOr(bad1, mbedtls_ct_uint_if(scan.pad_done, 0, 1))
           bad3 == BitOr(bad2, mbedtls_ct_size_gt(8, scan.pad_count))
       IN  /\ plaintext_max_size' = max
           /\ pad_done' = scan.pad_done
           /\ pad_count' = scan.pad_count
           /\ bad' = bad3
           /\ trace' = trace \o << Access("r", "input", 0),
                                   Access("r", "input", 1) >>
                             \o ScanTrace(ilen, 2)
    /\ pc' = "checked"
    /\ UNCHANGED << input, input0, ilen, output, output_max_len, olen, ret,
                    plaintext_size, output_too_large, move_offset,
                    mpiVars, cmp, cpy, mov >>

\* lines 682-700: the plaintext size, output_too_large and the return code
UnpadFoldResult ==
    /\ pc = "checked"
    /\ LET size == mbedtls_ct_uint_if(
                       bad,
                       Wrap(UIntBits, plaintext_max_size),
                       Wrap(UIntBits, Wrap(SizeBits, ilen - pad_count - 3)))
           large == mbedtls_ct_size_gt(size, plaintext_max_size)
       IN  /\ plaintext_size' = size
           /\ output_too_large' = large
           /\ ret' = 0 - ToInt(mbedtls_ct_uint_if(
                                   bad, INVALID_PADDING,
                                   mbedtls_ct_uint_if(large, OUTPUT_TOO_LARGE, 0)))
    /\ pc' = "folded"
    /\ UNCHANGED << input, input0, ilen, output, output_max_len, olen,
                    bad, pad_done, pad_count, plaintext_max_size,
                    move_offset, trace, mpiVars, cmp, cpy, mov >>

\* the step without the clamp of lines 717-719: plaintext_size is used as
\* lines 682-684 left it
UnpadScrubAndMove_unclamped ==
    /\ pc = "folded"
    /\ LET mask == mbedtls_ct_uint_mask(BitOr(bad, output_too_large))
           scrubbed == ScrubLoop(input, ilen, mask, MinIlen)
           offset == Wrap(SizeBits, plaintext_max_size - plaintext_size)
           moved == mbedtls_ct_mem_move_to_left(
                        scrubbed, ilen - plaintext_max_size,
                        plaintext_max_size, offset)
       IN  /\ bad' = mask
           /\ move_offset' = offset
           /\ input' = moved.buf
           /\ trace' = trace \o ScrubTrace(ilen, MinIlen) \o moved.trace
    /\ pc' = "moved"
    /\ UNCHANGED << input0, ilen, output, output_max_len, olen, ret,
                    pad_done, pad_count, plaintext_max_size, plaintext_size,
                    output_too_large, mpiVars, cmp, cpy, mov >>

\* lines 708-729: zero what must not be copied, clamp the size, move the
\* plaintext to plaintext_max_size bytes from the end of the block
UnpadScrubAndMove ==
    /\ pc = "folded"
    /\ LET mask == mbedtls_ct_uint_mask(BitOr(bad, output_too_large))
           scrubbed == ScrubLoop(input, ilen, mask, MinIlen)
           size == mbedtls_ct_uint_if(output_too_large,
                                      Wrap(UIntBits, plaintext_max_size),
                                      Wrap(UIntBits, plaintext_size))
           offset == Wrap(SizeBits, plaintext_max_size - size)
           moved == mbedtls_ct_mem_move_to_left(
                        scrubbed, ilen - plaintext_max_size,
                        plaintext_max_size, offset)
       IN  /\ bad' = mask
           /\ plaintext_size' = size
           /\ move_offset' = offset
           /\ input' = moved.buf
           /\ trace' = trace \o ScrubTrace(ilen, MinIlen) \o moved.trace
    /\ pc' = "moved"
    /\ UNCHANGED << input0, ilen, output, output_max_len, olen, ret,
                    pad_done, pad_count, plaintext_max_size, output_too_large,
                    mpiVars, cmp, cpy, mov >>

\* lines 738-748: the copy to the caller's buffer, *olen and the return
UnpadCopyOut ==
    /\ pc = "moved"
    /\ IF output_max_len # 0
       THEN /\ output' = Memcpy(output, input, ilen - plaintext_max_size,
                                plaintext_max_size)
            /\ trace' = trace \o << Branch("output_max_len != 0", TRUE) >>
                              \o MemcpyTrace(ilen - plaintext_max_size,
                                             plaintext_max_size, 0)
       ELSE /\ output' = output
            /\ trace' = trace \o << Branch("output_max_len != 0", FALSE) >>
    /\ olen' = plaintext_size
    /\ pc' = "done"
    /\ UNCHANGED << input, input0, ilen, output_max_len, ret,
                    bad, pad_done, pad_count, plaintext_max_size,
                    plaintext_size, output_too_large, move_offset,
                    mpiVars, cmp, cpy, mov >>

UnpadNext ==
    \/ UnpadCheckPadding
    \/ UnpadFoldResult
    \/ UnpadScrubAndMove
    \/ UnpadCopyOut

SpecUnpad == UnpadInit /\ [][UnpadNext]_vars

(* ------------------------- big integers -------------------------------- *)
\* A big integer is [s |-> sign, n |-> limb count, p |-> limbs 0..n-1],
\* least significant limb first.

\* limb values the operands are drawn from: 0, 1, the top bit, all ones
LimbVals == {0, 1, Pow2(LimbBits - 1), Pow2(LimbBits) - 1}

MpiOfSize(n) ==
    { [s |-> sg, n |-> n, p |-> limbs] :
        sg \in {1, -1}, limbs \in [0..(n - 1) -> LimbVals] }

Mpis == UNION { MpiOfSize(n) : n \in 0..MaxLimbs }

\* the loop of mbedtls_ct_mpi_uint_cond_assign from limb k on
RECURSIVE CondAssignLoop(_, _, _, _, _)
CondAssignLoop(dest, src, mask, n, k) ==
    IF k < n
    THEN CondAssignLoop(
             [dest EXCEPT ![k] = BitOr(BitAnd(src[k], mask),
                                       BitAnd(dest[k], Not(LimbBits, mask)))],
             src, mask, n, k + 1)
    ELSE dest

\* the assignment with the mask and its complement exchanged
cond_assign_inverted(n, dest, src, condition) ==
    CondAssignLoop(dest, src, Not(LimbBits, Wrap(LimbBits, 0 - condition)), n, 0)

mbedtls_ct_mpi_uint_cond_assign(n, dest, src, condition) ==
    LET mask == Wrap(LimbBits, 0 - condition)
    IN  CondAssignLoop(dest, src, mask, n, 0)

\* mbedtls_mpi_grow, when the allocation succeeds
mbedtls_mpi_grow(M, nblimbs) ==
    IF M.n < nblimbs
    THEN [s |-> M.s, n |-> nblimbs,
          p |-> [k \in 0..(nblimbs - 1) |-> IF k < M.n THEN M.p[k] ELSE 0]]
    ELSE M

mbedtls_mpi_core_cond_assign(Xp, Ap, limbs, assign) ==
    mbedtls_ct_mpi_uint_cond_assign(limbs, Xp, Ap, assign)

\* the loop of mbedtls_mpi_core_cond_swap from limb k on
RECURSIVE CondSwapLoop(_, _, _, _, _)
CondSwapLoop(Xp, Yp, mask, limbs, k) ==
    IF k < limbs
    THEN LET tmp == Xp[k]
         IN  CondSwapLoop(
                 [Xp EXCEPT ![k] = BitOr(BitAnd(Xp[k], Not(LimbBits, mask)),
                                         BitAnd(Yp[k], mask))],
                 [Yp EXCEPT ![k] = BitOr(BitAnd(Yp[k], Not(LimbBits, mask)),
                                         BitAnd(tmp, mask))],
                 mask, limbs, k + 1)
    ELSE [Xp |-> Xp, Yp |-> Yp]

mbedtls_mpi_core_cond_swap(Xp, Yp, limbs, swap) ==
    CondSwapLoop(Xp, Yp, mbedtls_ct_mpi_uint_mask(swap), limbs, 0)

\* the conditional assignment without the loop over limbs Y->n .. X->n - 1
safe_cond_assign_no_zero_extend(Xm, Ym, assign) ==
    LET Xg == mbedtls_mpi_grow(Xm, Ym.n)
    IN  [s |-> ToInt(mbedtls_ct_uint_if(assign, ToUnsigned(Ym.s),
                                        ToUnsigned(Xg.s))),
         n |-> Xg.n,
         p |-> mbedtls_mpi_core_cond_assign(Xg.p, Ym.p, Ym.n, assign)]

\* mbedtls_mpi_safe_cond_assign past a successful grow: the new X
mbedtls_mpi_safe_cond_assign(Xm, Ym, assign) ==
    LET limb_mask == mbedtls_ct_mpi_uint_mask(assign)
        Xg == mbedtls_mpi_grow(Xm, Ym.n)
        sign == ToInt(mbedtls_ct_uint_if(assign, ToUnsigned(Ym.s),
                                         ToUnsigned(Xg.s)))
        limbs == mbedtls_mpi_core_cond_assign(Xg.p, Ym.p, Ym.n, assign)
    IN  [s |-> sign,
         n |-> Xg.n,
         p |-> [k \in 0..(Xg.n - 1) |->
                   IF k >= Ym.n
                   THEN BitAnd(limbs[k], Not(LimbBits, limb_mask))
                   ELSE limbs[k]]]

\* the conditional swap that reads X->s for Y's sign after overwriting it
safe_cond_swap_sign_clobbered(Xm, Ym, swap) ==
    LET Xg == mbedtls_mpi_grow(Xm, Ym.n)
        Yg == mbedtls_mpi_grow(Ym, Xg.n)
        xs == ToInt(mbedtls_ct_uint_if(swap, ToUnsigned(Yg.s), ToUnsigned(Xg.s)))
        ys == ToInt(mbedtls_ct_uint_if(swap, ToUnsigned(xs), ToUnsigned(Yg.s)))
        limbs == mbedtls_mpi_core_cond_swap(Xg.p, Yg.p, Xg.n, swap)
    IN  [X |-> [s |-> xs, n |-> Xg.n, p |-> limbs.Xp],
         Y |-> [s |-> ys, n |-> Yg.n, p |-> limbs.Yp]]

\* mbedtls_mpi_safe_cond_swap on two objects, past both grows: the new X, Y
mbedtls_mpi_safe_cond_swap(Xm, Ym, swap) ==
    LET Xg == mbedtls_mpi_grow(Xm, Ym.n)
        Yg == mbedtls_mpi_grow(Ym, Xg.n)
        sv == Xg.s
        xs == ToInt(mbedtls_ct_uint_if(swap, ToUnsigned(Yg.s), ToUnsigned(Xg.s)))
        ys == ToInt(mbedtls_ct_uint_if(swap, ToUnsigned(sv), ToUnsigned(Yg.s)))
        limbs == mbedtls_mpi_core_cond_swap(Xg.p, Yg.p, Xg.n, swap)
    IN  [X |-> [s |-> xs, n |-> Xg.n, p |-> limbs.Xp],
         Y |-> [s |-> ys, n |-> Yg.n, p |-> limbs.Yp]]

\* one pass of the loop of mbedtls_mpi_core_lt_ct that lets a later limb
\* set ret: ret |= cond
CoreLtBody_unguarded(a, b, r, d) ==
    LET cond1 == mbedtls_ct_mpi_uint_lt(b, a)
        cond2 == mbedtls_ct_mpi_uint_lt(a, b)
    IN  [ret |-> BitOr(r, cond2),
         done |-> BitOr(BitOr(d, cond1), cond2)]

\* one pass of the loop of mbedtls_mpi_core_lt_ct on limbs a = A[i - 1] and
\* b = B[i - 1]
CoreLtBody(a, b, r, d) ==
    LET cond1 == mbedtls_ct_mpi_uint_lt(b, a)
        done1 == BitOr(d, cond1)
        cond2 == mbedtls_ct_mpi_uint_lt(a, b)
    IN  [ret |-> BitOr(r, BitAnd(cond2, Wrap(UIntBits, 1 - done1))),
         done |-> BitOr(done1, cond2)]

\* (N->s & 2) >> 1
SignBit(sg) == Shr(BitAnd(ToUnsigned(sg), 2), 1)

\* one pass of the loop of mbedtls_mpi_lt_mpi_ct that takes both results
\* as if the operands were positive
LtMpiBody_sign_ignored(x, y, r, d, X_is_negative) ==
    LET cond1 == mbedtls_ct_mpi_uint_lt(y, x)
        done1 == BitOr(d, cond1)
        cond2 == mbedtls_ct_mpi_uint_lt(x, y)
    IN  [ret |-> BitOr(r, BitAnd(cond2, Wrap(UIntBits, 1 - done1))),
         done |-> BitOr(done1, cond2)]

\* one pass of the loop of mbedtls_mpi_lt_mpi_ct on limbs x = X->p[i - 1]
\* and y = Y->p[i - 1]
LtMpiBody(x, y, r, d, X_is_negative) ==
    LET cond1 == mbedtls_ct_mpi_uint_lt(y, x)
        ret1 == BitOr(r, BitAnd(BitAnd(cond1, Wrap(UIntBits, 1 - d)),
                                X_is_negative))
        done1 == BitOr(d, cond1)
        cond2 == mbedtls_ct_mpi_uint_lt(x, y)
        ret2 == BitOr(ret1, BitAnd(BitAnd(cond2, Wrap(UIntBits, 1 - done1)),
                                   Wrap(UIntBits, 1 - X_is_negative)))
    IN  [ret |-> ret2, done |-> BitOr(done1, cond2)]

(* ------------- mbedtls_mpi_core_lt_ct, mbedtls_mpi_lt_mpi_ct ------------ *)
UnchangedOperands == UNCHANGED << op, X, Y, X0, Y0, flag, aliased, calls, nswap >>

LtInit ==
    /\ pc = "start"
    /\ op \in {"core_lt", "lt_mpi"}
    /\ X \in Mpis
    /\ Y \in Mpis
    \* the unsigned comparison takes two arrays of one length and no signs
    /\ op = "core_lt" => (X.n = Y.n /\ X.s = 1 /\ Y.s = 1)
    /\ X0 = X /\ Y0 = Y
    /\ flag = 0 /\ aliased = FALSE
    /\ lt_i = 0 /\ lt_ret = 0 /\ lt_done = 0 /\ visited = 0
    /\ mret = 1       \* no call has returned: no function returns 1
    /\ calls = 0 /\ nswap = 0
    /\ UnpadIdle
    /\ CmpIdle
    /\ CpyIdle
    /\ MovIdle

\* line 521 and the loop header of line 523
CoreLtStart ==
    /\ pc = "start" /\ op = "core_lt"
    /\ lt_ret' = 0 /\ lt_done' = 0
    /\ lt_i' = X.n
    /\ visited' = 0
    /\ pc' = "loop"
    /\ UNCHANGED << mret, unpadVars, cmp, cpy, mov >>
    /\ UnchangedOperands

\* lines 523-543: one pass of the loop
CoreLtStep ==
    /\ pc = "loop" /\ op = "core_lt"
    /\ lt_i > 0
    /\ LET r == CoreLtBody(X.p[lt_i - 1], Y.p[lt_i - 1], lt_ret, lt_done)
       IN  /\ lt_ret' = r.ret
           /\ lt_done' = r.done
    /\ lt_i' = lt_i - 1
    /\ visited' = visited + 1
    /\ pc' = "loop"
    /\ UNCHANGED << mret, unpadVars, cmp, cpy, mov >>
    /\ UnchangedOperands

\* line 550
CoreLtReturn ==
    /\ pc = "loop" /\ op = "core_lt"
    /\ ~(lt_i > 0)
    /\ pc' = "done"
    /\ UNCHANGED << lt_i, lt_ret, lt_done, visited, mret, unpadVars, cmp, cpy, mov >>
    /\ UnchangedOperands

\* lines 568-570
LtMpiBadInput ==
    /\ pc = "start" /\ op = "lt_mpi"
    /\ X.n # Y.n
    /\ mret' = 0 - BAD_INPUT_DATA
    /\ pc' = "done"
    /\ UNCHANGED << lt_i, lt_ret, lt_done, visited, unpadVars, cmp, cpy, mov >>
    /\ UnchangedOperands

\* lines 576-593: the signs, the result they fix, the loop header
LtMpiStart ==
    /\ pc = "start" /\ op = "lt_mpi"
    /\ ~(X.n # Y.n)
    /\ LET X_is_negative == SignBit(X.s)
           Y_is_negative == SignBit(Y.s)
           cond == BitXor(X_is_negative, Y_is_negative)
       IN  /\ lt_ret' = BitAnd(cond, X_is_negative)
           /\ lt_done' = cond
    /\ lt_i' = X.n
    /\ visited' = 0
    /\ pc' = "loop"
    /\ UNCHANGED << mret, unpadVars, cmp, cpy, mov >>
    /\ UnchangedOperands

\* lines 593-615: one pass of the loop
LtMpiStep ==
    /\ pc = "loop" /\ op = "lt_mpi"
    /\ lt_i > 0
    /\ LET r == LtMpiBody(X.p[lt_i - 1], Y.p[lt_i - 1], lt_ret, lt_done,
                          SignBit(X.s))
       IN  /\ lt_ret' = r.ret
           /\ lt_done' = r.done
    /\ lt_i' = lt_i - 1
    /\ visited' = visited + 1
    /\ pc' = "loop"
    /\ UNCHANGED << mret, unpadVars, cmp, cpy, mov >>
    /\ UnchangedOperands

\* line 617
LtMpiReturn ==
    /\ pc = "loop" /\ op = "lt_mpi"
    /\ ~(lt_i > 0)
    /\ mret' = 0
    /\ pc' = "done"
    /\ UNCHANGED << lt_i, lt_ret, lt_done, visited, unpadVars, cmp, cpy, mov >>
    /\ UnchangedOperands

LtNext ==
    \/ CoreLtStart
    \/ CoreLtStep
    \/ CoreLtReturn
    \/ LtMpiBadInput
    \/ LtMpiStart
    \/ LtMpiStep
    \/ LtMpiReturn

SpecLt == LtInit /\ [][LtNext]_vars

(* -------- mbedtls_mpi_safe_cond_assign, mbedtls_mpi_safe_cond_swap ------ *)
CondInit ==
    /\ pc = "start"
    /\ op \in {"assign", "swap"}
    /\ X \in Mpis
    /\ Y \in Mpis
    /\ aliased \in BOOLEAN
    \* one object passed twice: only the swap is called so
    /\ aliased => (op = "swap" /\ Y = X)
    /\ X0 = X /\ Y0 = Y
    /\ flag = 0
    /\ lt_i = 0 /\ lt_ret = 0 /\ lt_done = 0 /\ visited = 0
    /\ mret = 1       \* no call has returned: no function returns 1
    /\ calls = 0 /\ nswap = 0
    /\ UnpadIdle
    /\ CmpIdle
    /\ CpyIdle
    /\ MovIdle

UnchangedByCond ==
    UNCHANGED << op, X0, Y0, aliased, lt_i, lt_ret, lt_done, visited,
                 unpadVars, cmp, cpy, mov >>

\* lines 453-476 with mbedtls_mpi_grow succeeding
SafeCondAssign ==
    /\ pc = "start" /\ op = "assign"
    /\ \E assign \in {0, 1} :
          /\ X' = mbedtls_mpi_safe_cond_assign(X, Y, assign)
          /\ flag' = assign
    /\ mret' = 0
    /\ calls' = calls + 1
    /\ pc' = "returned"
    /\ UNCHANGED << Y, nswap >>
    /\ UnchangedByCond

\* lines 464 and 474-475: mbedtls_mpi_grow has to allocate and cannot
SafeCondAssignAllocFails ==
    /\ pc = "start" /\ op = "assign"
    /\ X.n < Y.n
    /\ \E assign \in {0, 1} : flag' = assign
    /\ mret' = 0 - ALLOC_FAILED
    /\ calls' = calls + 1
    /\ pc' = "done"
    /\ UNCHANGED << X, Y, nswap >>
    /\ UnchangedByCond

\* lines 493-495: X == Y
SafeCondSwapSameObject ==
    /\ pc \in {"start", "returned"} /\ op = "swap"
    /\ calls < MaxCalls
    /\ aliased
    /\ \E swap \in {0, 1} : flag' = swap
    /\ mret' = 0
    /\ calls' = calls + 1
    /\ pc' = "returned"
    /\ UNCHANGED << X, Y, nswap >>
    /\ UnchangedByCond

\* lines 497-508 with both calls of mbedtls_mpi_grow succeeding
SafeCondSwap ==
    /\ pc \in {"start", "returned"} /\ op = "swap"
    /\ calls < MaxCalls
    /\ ~aliased
    /\ \E swap \in {0, 1} :
          LET r == mbedtls_mpi_safe_cond_swap(X, Y, swap)
          IN  /\ X' = r.X
              /\ Y' = r.Y
              /\ flag' = swap
              /\ nswap' = nswap + swap
    /\ mret' = 0
    /\ calls' = calls + 1
    /\ pc' = "returned"
    /\ UnchangedByCond

\* lines 497-498 and 506-507: the one mbedtls_mpi_grow that has to allocate
\* cannot; the other leaves its operand as it is
SafeCondSwapAllocFails ==
    /\ pc \in {"start", "returned"} /\ op = "swap"
    /\ calls < MaxCalls
    /\ ~aliased
    /\ X.n # Y.n
    /\ \E swap \in {0, 1} : flag' = swap
    /\ mret' = 0 - ALLOC_FAILED
    /\ calls' = calls + 1
    /\ pc' = "done"
    /\ UNCHANGED << X, Y, nswap >>
    /\ UnchangedByCond

CondNext ==
    \/ SafeCondAssign
    \/ SafeCondAssignAllocFails
    \/ SafeCondSwapSameObject
    \/ SafeCondSwap
    \/ SafeCondSwapAllocFails

SpecCond == CondInit /\ [][CondNext]_vars

(* ---------------------- the size comparisons ---------------------------- *)
\* operands near 0, near the top bit and near the largest value
SizeVals ==
    (0..CmpSpread)
    \cup ((Pow2(SizeBits - 1) - CmpSpread)..(Pow2(SizeBits - 1) + CmpSpread))
    \cup ((Pow2(SizeBits) - 1 - CmpSpread)..(Pow2(SizeBits) - 1))

CmpInit ==
    /\ pc = "start"
    /\ \E x \in SizeVals, y \in SizeVals : cmp = [x |-> x, y |-> y]
    /\ UnpadIdle
    /\ MpiIdle
    /\ CpyIdle
    /\ MovIdle

\* the three comparisons of size_t called on the pair
CompareSizes ==
    /\ pc = "start"
    /\ cmp' = [x |-> cmp.x, y |-> cmp.y,
               gt |-> mbedtls_ct_size_gt(cmp.x, cmp.y),
               mask_lt |-> mbedtls_ct_size_mask_lt(cmp.x, cmp.y),
               mask_ge |-> mbedtls_ct_size_mask_ge(cmp.x, cmp.y)]
    /\ pc' = "done"
    /\ UNCHANGED << unpadVars, mpiVars, cpy, mov >>

CmpNext == CompareSizes

SpecCmp == CmpInit /\ [][CmpNext]_vars

(* ------------- the limb comparison and the size equality --------------- *)
\* every value of a limb
LimbRange == 0..(Pow2(LimbBits) - 1)

EqLtInit ==
    /\ pc = "start"
    /\ \/ \E x \in LimbRange, y \in LimbRange :
             cmp = [f |-> "mpi_uint_lt", x |-> x, y |-> y]
       \/ \E x \in SizeVals, y \in SizeVals :
             cmp = [f |-> "size_bool_eq", x |-> x, y |-> y]
    /\ UnpadIdle
    /\ MpiIdle
    /\ CpyIdle
    /\ MovIdle

\* a call of mbedtls_ct_mpi_uint_lt on the pair
CompareLimbs ==
    /\ pc = "start"
    /\ cmp.f = "mpi_uint_lt"
    /\ cmp' = [f |-> cmp.f, x |-> cmp.x, y |-> cmp.y,
               r |-> mbedtls_ct_mpi_uint_lt(cmp.x, cmp.y)]
    /\ pc' = "done"
    /\ UNCHANGED << unpadVars, mpiVars, cpy, mov >>

\* a call of mbedtls_ct_size_bool_eq on the pair
CompareSizesEq ==
    /\ pc = "start"
    /\ cmp.f = "size_bool_eq"
    /\ cmp' = [f |-> cmp.f, x |-> cmp.x, y |-> cmp.y,
               r |-> mbedtls_ct_size_bool_eq(cmp.x, cmp.y)]
    /\ pc' = "done"
    /\ UNCHANGED << unpadVars, mpiVars, cpy, mov >>

EqLtNext ==
    \/ CompareLimbs
    \/ CompareSizesEq

SpecEqLt == EqLtInit /\ [][EqLtNext]_vars

(* ----------------------- mbedtls_ct_memcpy_offset ---------------------- *)
\* bytes the source and the destination are drawn from
SrcBytes == {17, 238}
DestBytes == {60, 165}

\* the source holds the offset_max + len bytes the calls can read; offset is
\* any value, inside offset_min..offset_max or not
CpyInit ==
    /\ pc = "start"
    /\ \E len \in 0..MaxLen, offset_min \in 0..MaxOffset,
          offset_max \in 0..MaxOffset, offset \in 0..(MaxOffset + 1) :
          \E src \in [0..(offset_max + len - 1) -> SrcBytes],
             dest \in [0..(len - 1) -> DestBytes] :
                cpy = [dest |-> dest, dest0 |-> dest, src |-> src,
                       src0 |-> src, len |-> len, offset |-> offset,
                       offset_min |-> offset_min, offset_max |-> offset_max,
                       offsetval |-> 0, calls |-> 0]
    /\ UnpadIdle
    /\ MpiIdle
    /\ CmpIdle
    /\ MovIdle

\* line 428: offsetval = offset_min
MemcpyOffsetEnter ==
    /\ pc = "start"
    /\ cpy' = [cpy EXCEPT !.offsetval = cpy.offset_min]
    /\ pc' = "loop"
    /\ UNCHANGED << unpadVars, mpiVars, cmp, mov >>

\* lines 428-431: one pass of the loop, the call it makes and offsetval++
MemcpyOffsetCall ==
    /\ pc = "loop"
    /\ cpy.offsetval <= cpy.offset_max
    /\ cpy' = [cpy EXCEPT
                  !.dest = mbedtls_ct_memcpy_if_eq(
                               cpy.dest, cpy.src, cpy.offsetval, cpy.len,
                               cpy.offsetval, cpy.offset),
                  !.offsetval = Wrap(SizeBits, cpy.offsetval + 1),
                  !.calls = cpy.calls + 1]
    /\ pc' = "loop"
    /\ UNCHANGED << unpadVars, mpiVars, cmp, mov >>

\* line 428, the condition false, and the return
MemcpyOffsetReturn ==
    /\ pc = "loop"
    /\ ~(cpy.offsetval <= cpy.offset_max)
    /\ pc' = "done"
    /\ UNCHANGED << unpadVars, mpiVars, cmp, cpy, mov >>

CpyNext ==
    \/ MemcpyOffsetEnter
    \/ MemcpyOffsetCall
    \/ MemcpyOffsetReturn

SpecCpy == CpyInit /\ [][CpyNext]_vars

(* --------------------- mbedtls_ct_mem_move_to_left ---------------------- *)
\* a buffer of total bytes and an offset within it
MoveInit ==
    /\ pc = "start"
    /\ \E total \in 0..MaxTotal :
          \E offset \in 0..total, buf \in [0..(total - 1) -> MsgBytes] :
             mov = [buf |-> buf, buf0 |-> buf, total |-> total,
                    offset |-> offset, i |-> 0, trace |-> << >>]
    /\ UnpadIdle
    /\ MpiIdle
    /\ CmpIdle
    /\ CpyIdle

\* lines 370-372: nothing to move
MoveReturnEmpty ==
    /\ pc = "start"
    /\ mov.total = 0
    /\ pc' = "done"
    /\ UNCHANGED << unpadVars, mpiVars, cmp, cpy, mov >>

\* lines 370 and 373: i = 0
MoveEnter ==
    /\ pc = "start"
    /\ ~(mov.total = 0)
    /\ mov' = [mov EXCEPT !.i = 0]
    /\ pc' = "loop"
    /\ UNCHANGED << unpadVars, mpiVars, cmp, cpy >>

\* lines 373-383: one pass of the outer loop and i++
MoveLeftPass ==
    /\ pc = "loop"
    /\ mov.i < mov.total
    /\ mov' = [mov EXCEPT
                  !.buf = MovePass(mov.buf, 0, mov.total, mov.offset, mov.i),
                  !.trace = mov.trace \o MoveInnerTrace(0, mov.total, 0),
                  !.i = mov.i + 1]
    /\ pc' = "loop"
    /\ UNCHANGED << unpadVars, mpiVars, cmp, cpy >>

\* line 373, the condition false, and the return
MoveReturn ==
    /\ pc = "loop"
    /\ ~(mov.i < mov.total)
    /\ pc' = "done"
    /\ UNCHANGED << unpadVars, mpiVars, cmp, cpy, mov >>

MoveNext ==
    \/ MoveReturnEmpty
    \/ MoveEnter
    \/ MoveLeftPass
    \/ MoveReturn

SpecMove == MoveInit /\ [][MoveNext]_vars

(* ------------------- what a block means (RFC 8017, 7.2.2) --------------- *)
Min(a, b) == IF a < b THEN a ELSE b

\* there is a zero byte at an index >= 2
HasSeparator(inp, len) == \E s \in 2..(len - 1) : inp[s] = 0

\* the index of the first of them
Separator(inp, len) ==
    CHOOSE s \in 2..(len - 1) :
        inp[s] = 0 /\ \A t \in 2..(s - 1) : inp[t] # 0

PaddingInvalid(inp, len) ==
    \/ inp[0] # 0
    \/ inp[1] # 2
    \/ ~HasSeparator(inp, len)
    \/ Separator(inp, len) - 2 < 8

\* length of the message after the separator of a validly padded block
PlaintextLen(inp, len) == len - Separator(inp, len) - 1

\* byte k of that message
PlaintextByte(inp, len, k) == inp[Separator(inp, len) + 1 + k]

PlaintextMax == Min(output_max_len, ilen - 11)

(* ------------------------------- C1 ------------------------------------ *)
\* C1: the call returns one of three codes: invalid padding exactly when the
\* first byte is not 0x00, the second not 0x02, bytes 2.. hold no 0x00, or
\* fewer than 8 nonzero bytes precede the first 0x00; otherwise output too
\* large exactly when the plaintext is longer than
\* min(output_max_len, ilen - 11); otherwise 0.
C1_ReturnCode ==
    pc = "done" =>
        /\ ret \in {0 - INVALID_PADDING, 0 - OUTPUT_TOO_LARGE, 0}
        /\ (ret = 0 - INVALID_PADDING) <=> PaddingInvalid(input0, ilen)
        /\ ~PaddingInvalid(input0, ilen) =>
              ((ret = 0 - OUTPUT_TOO_LARGE)
                  <=> (PlaintextLen(input0, ilen) > PlaintextMax))

\* a validly padded block whose plaintext does not fit has been rejected
C1_Witness ==
    /\ pc = "done"
    /\ ret = 0 - OUTPUT_TOO_LARGE
    /\ ~PaddingInvalid(input0, ilen)

(* ------------------------------- C2 ------------------------------------ *)
\* C2: when the call returns 0, *olen = ilen - s - 1 for s the first 0x00 at
\* an index >= 2, output[0..*olen) is the block's bytes s+1.., and the rest
\* of the copied bytes, up to min(output_max_len, ilen - 11), are zero.
C2_SuccessOutput ==
    (pc = "done" /\ ret = 0) =>
        /\ HasSeparator(input0, ilen)
        /\ olen = ilen - Separator(input0, ilen) - 1
        /\ \A k \in 0..(olen - 1) :
              output[k] = input0[Separator(input0, ilen) + 1 + k]
        /\ \A k \in olen..(PlaintextMax - 1) : output[k] = 0

\* a one-byte plaintext was moved one place left and followed by a zero
C2_Witness ==
    /\ pc = "done"
    /\ ret = 0
    /\ olen = 1
    /\ PlaintextMax = 2
    /\ output[0] = 255
    /\ output[1] = 0

(* ------------------------------- C3 ------------------------------------ *)
\* C3 as stated: a validly padded block whose plaintext is longer than
\* plaintext_max_size is answered by output too large, with the first
\* plaintext_max_size bytes of the plaintext in output.
C3_TruncatedPlaintext ==
    (/\ pc = "done"
     /\ ~PaddingInvalid(input0, ilen)
     /\ PlaintextLen(input0, ilen) > PlaintextMax) =>
        /\ ret = 0 - OUTPUT_TOO_LARGE
        /\ \A k \in 0..(PlaintextMax - 1) :
              output[k] = PlaintextByte(input0, ilen, k)

\* C3: a validly padded block whose plaintext is longer than
\* plaintext_max_size is answered by output too large, with *olen =
\* plaintext_max_size and output[0..plaintext_max_size) all zero.
C3_ScrubbedWhenTooLarge ==
    (/\ pc = "done"
     /\ ~PaddingInvalid(input0, ilen)
     /\ PlaintextLen(input0, ilen) > PlaintextMax) =>
        /\ ret = 0 - OUTPUT_TOO_LARGE
        /\ olen = PlaintextMax
        /\ \A k \in 0..(PlaintextMax - 1) : output[k] = 0

\* a two-byte nonzero plaintext met a one-byte buffer
C3_Witness ==
    /\ pc = "done"
    /\ ~PaddingInvalid(input0, ilen)
    /\ PlaintextLen(input0, ilen) = 2
    /\ PlaintextMax = 1
    /\ PlaintextByte(input0, ilen, 0) # 0
    /\ PlaintextByte(input0, ilen, 1) # 0
    /\ ret = 0 - OUTPUT_TOO_LARGE

(* ------------------------------- C4 ------------------------------------ *)
\* C4: every call that returns invalid padding leaves *olen =
\* min(output_max_len, ilen - 11), zero in every byte it copied to output
\* and the rest of output as it was: what it writes is fixed by the lengths.
C4_InvalidPaddingOutput ==
    (pc = "done" /\ ret = 0 - INVALID_PADDING) =>
        /\ olen = PlaintextMax
        /\ \A k \in 0..(output_max_len - 1) :
              output[k] = IF k < PlaintextMax THEN 0 ELSE 204

\* a rejected block whose bytes from offset 11 on were all nonzero
C4_Witness ==
    /\ pc = "done"
    /\ ret = 0 - INVALID_PADDING
    /\ ilen = 13
    /\ PlaintextMax = 2
    /\ input0[11] # 0
    /\ input0[12] # 0

(* ------------------------------- C5 ------------------------------------ *)
RECURSIVE Repeat(_, _)
Repeat(s, n) == IF n <= 0 THEN << >> ELSE s \o Repeat(s, n - 1)

\* the trace of a call as the lengths alone fix it: bytes 0 and 1, one read
\* of each byte from 2 on, a read and a write of each byte from 11 on, then
\* max passes over the last max bytes (max = min(output_max_len, ilen - 11)),
\* each reading and writing every adjacent pair and the last byte, then the
\* copy of those max bytes
TraceOfLengths(len, omax) ==
    LET max == Min(omax, len - 11)
        start == len - max
        scan == [j \in 1..(len - 2) |-> <<"r", "input", j + 1>>]
        scrub == [j \in 1..(2 * (len - 11)) |->
                     << IF j % 2 = 1 THEN "r" ELSE "w", "input",
                        11 + ((j - 1) \div 2) >>]
        pass == [j \in 1..(3 * (max - 1) + 2) |->
                     IF j <= 3 * (max - 1)
                     THEN << IF j % 3 = 0 THEN "w" ELSE "r", "input",
                             start + ((j - 1) \div 3)
                                   + (IF j % 3 = 2 THEN 1 ELSE 0) >>
                     ELSE << IF j = 3 * (max - 1) + 1 THEN "r" ELSE "w",
                             "input", len - 1 >>]
        copy == [j \in 1..(2 * max) |->
                     IF j % 2 = 1
                     THEN <<"r", "input", start + ((j - 1) \div 2)>>
                     ELSE <<"w", "output", (j - 1) \div 2>>]
    IN  << <<"r", "input", 0>>, <<"r", "input", 1>> >>
        \o scan
        \o scrub
        \o << <<"if", "total == 0", IF max = 0 THEN 1 ELSE 0>> >>
        \o (IF max = 0 THEN << >> ELSE Repeat(pass, max))
        \o << <<"if", "output_max_len != 0", IF omax # 0 THEN 1 ELSE 0>> >>
        \o (IF omax # 0 THEN copy ELSE << >>)

\* C5: the accesses to input and output and the branches taken by a call,
\* the shift to the left included, are fixed by ilen and output_max_len:
\* two calls with the same lengths leave the same trace whatever the block.
C5_TraceFixedByLengths ==
    pc = "done" => trace = TraceOfLengths(ilen, output_max_len)

\* a call on a block whose one-byte plaintext had to be shifted in a
\* two-byte region
C5_Witness ==
    /\ pc = "done"
    /\ ret = 0
    /\ plaintext_max_size = 2
    /\ move_offset = 1
    /\ Len(trace) > 0

(* ------------------- what a big integer means --------------------------- *)
Max(a, b) == IF a > b THEN a ELSE b

\* the unsigned value of limbs k .. n-1 of p, limb k weighing 1
RECURSIVE LimbsValue(_, _, _)
LimbsValue(p, n, k) ==
    IF k < n THEN p[k] + (Pow2(LimbBits) * LimbsValue(p, n, k + 1)) ELSE 0

Magnitude(M) == LimbsValue(M.p, M.n, 0)

SignedValue(M) == M.s * Magnitude(M)

Bool01(b) == IF b THEN 1 ELSE 0

(* ------------------------------- C6 ------------------------------------ *)
\* C6 as stated: for operands of one limb count, any signs and any limbs,
\* mbedtls_mpi_lt_mpi_ct returns 0 and sets *ret to 1 if
\* sign(X)*|X| < sign(Y)*|Y| and to 0 otherwise.
C6_SignedLess ==
    (pc = "done" /\ op = "lt_mpi" /\ X.n = Y.n) =>
        /\ mret = 0
        /\ lt_ret = Bool01(SignedValue(X) < SignedValue(Y))

NegativeZero(M) == M.s = -1 /\ Magnitude(M) = 0

\* C6: for operands of one limb count mbedtls_mpi_lt_mpi_ct returns 0 and
\* sets *ret to 1 if sign(X)*|X| < sign(Y)*|Y| and to 0 otherwise, except
\* that a zero X of sign -1 is reported less than a zero Y of sign +1; with
\* different signs the negative operand is the smaller, with two negative
\* ones the larger magnitude is the smaller.
C6_SignedLessButNegativeZero ==
    (pc = "done" /\ op = "lt_mpi" /\ X.n = Y.n) =>
        /\ mret = 0
        /\ lt_ret = IF NegativeZero(X) /\ Y.s = 1 /\ Magnitude(Y) = 0
                    THEN 1
                    ELSE Bool01(SignedValue(X) < SignedValue(Y))
        /\ X.s # Y.s => lt_ret = Bool01(X.s = -1)
        /\ (X.s = -1 /\ Y.s = -1) =>
              lt_ret = Bool01(Magnitude(X) > Magnitude(Y))
        /\ (X.s = 1 /\ Y.s = 1) =>
              lt_ret = Bool01(Magnitude(X) < Magnitude(Y))

\* two negative two-limb operands, X of the larger magnitude by its top
\* limb and of the smaller low limb, compared to the end
C6_Witness ==
    /\ pc = "done" /\ op = "lt_mpi"
    /\ X.n = 2 /\ Y.n = 2
    /\ X.s = -1 /\ Y.s = -1
    /\ X.p[1] > Y.p[1]
    /\ X.p[0] < Y.p[0]
    /\ lt_ret = 1
    /\ mret = 0

(* ------------------------------- C7 ------------------------------------ *)
\* limbs the loop has been through, i.e. lt_i .. n-1, at which A and B differ
DifferingSeen == { k \in lt_i..(X.n - 1) : X.p[k] # Y.p[k] }

TopOf(S) == CHOOSE k \in S : \A j \in S : j <= k

\* C7: mbedtls_mpi_core_lt_ct returns 1 if A < B as unsigned integers and 0
\* otherwise; ret and done stay in {0, 1}; done is 1 exactly when a limb
\* seen so far differs, and ret is then what the most significant of them
\* says, whatever the less significant ones hold; the loop goes through
\* all the limbs.
C7_CoreLt ==
    (op = "core_lt" /\ pc \in {"loop", "done"}) =>
        /\ lt_ret \in {0, 1}
        /\ lt_done \in {0, 1}
        /\ visited = X.n - lt_i
        /\ lt_done = Bool01(DifferingSeen # {})
        /\ lt_ret = Bool01(/\ DifferingSeen # {}
                           /\ X.p[TopOf(DifferingSeen)]
                                 < Y.p[TopOf(DifferingSeen)])
        /\ pc = "done" =>
              /\ visited = X.n
              /\ lt_ret = Bool01(Magnitude(X) < Magnitude(Y))

\* A above B in the top limb and below it in the low one: decided at the
\* top limb, ret still 0 after the low one
C7_Witness ==
    /\ op = "core_lt" /\ pc = "done"
    /\ X.n = 2
    /\ X.p[1] > Y.p[1]
    /\ X.p[0] < Y.p[0]
    /\ lt_ret = 0
    /\ lt_done = 1
    /\ visited = 2

(* ------------------------------- C8 ------------------------------------ *)
\* C8: after mbedtls_mpi_safe_cond_assign(X, Y, 1) has returned 0, X has
\* the sign of Y, limbs [0, Y->n) of Y and zero limbs [Y->n, X->n), so the
\* value of Y; after mbedtls_mpi_safe_cond_assign(X, Y, 0), X has its sign
\* and limbs of before, and zero in the limbs grown. Y is as it was.
C8_SafeCondAssign ==
    (pc = "returned" /\ op = "assign" /\ mret = 0) =>
        /\ Y = Y0
        /\ X.n = Max(X0.n, Y0.n)
        /\ DOMAIN X.p = 0..(X.n - 1)
        /\ flag = 1 =>
              /\ X.s = Y0.s
              /\ \A k \in 0..(Y0.n - 1) : X.p[k] = Y0.p[k]
              /\ \A k \in Y0.n..(X.n - 1) : X.p[k] = 0
              /\ SignedValue(X) = SignedValue(Y0)
        /\ flag = 0 =>
              /\ X.s = X0.s
              /\ \A k \in 0..(X0.n - 1) : X.p[k] = X0.p[k]
              /\ \A k \in X0.n..(X.n - 1) : X.p[k] = 0

\* a one-limb Y assigned to a two-limb X whose top limb was not zero
C8_Witness ==
    /\ pc = "returned" /\ op = "assign" /\ mret = 0
    /\ flag = 1
    /\ X0.n = 2 /\ Y0.n = 1
    /\ X0.p[1] # 0
    /\ X0.s # Y0.s
    /\ X.p[1] = 0

(* ------------------------------- C9 ------------------------------------ *)
SameNumber(M, N) == M.s = N.s /\ Magnitude(M) = Magnitude(N)

\* C9: each mbedtls_mpi_safe_cond_swap(X, Y, 1) that returns 0 exchanges
\* the signs and values of X and Y, each mbedtls_mpi_safe_cond_swap(X, Y, 0)
\* keeps them, so two swaps give back what there was; X and Y end with
\* max(X->n, Y->n) limbs; on one object passed twice the call returns 0
\* and changes nothing.
C9_SafeCondSwap ==
    (pc = "returned" /\ op = "swap") =>
        /\ mret = 0
        /\ aliased => (X = X0 /\ Y = Y0)
        /\ ~aliased =>
              /\ X.n = Max(X0.n, Y0.n)
              /\ Y.n = Max(X0.n, Y0.n)
              /\ IF nswap % 2 = 1
                 THEN SameNumber(X, Y0) /\ SameNumber(Y, X0)
                 ELSE SameNumber(X, X0) /\ SameNumber(Y, Y0)

\* two swaps in a row of operands of different signs, sizes and values
C9_Witness ==
    /\ pc = "returned" /\ op = "swap" /\ ~aliased
    /\ calls = 2 /\ nswap = 2
    /\ X0.n = 1 /\ Y0.n = 2
    /\ X0.s # Y0.s
    /\ Magnitude(X0) # Magnitude(Y0)
    /\ SameNumber(X, X0)

(* ------------------------------- C10 ----------------------------------- *)
AllOnes == Pow2(SizeBits) - 1

\* C10: on every pair of size_t values mbedtls_ct_size_gt(x, y) is 1 if
\* x > y and 0 otherwise, mbedtls_ct_size_mask_lt(x, y) is all-ones if
\* x < y and 0 otherwise, and mbedtls_ct_size_mask_ge(x, y) is its
\* complement.
C10_SizeComparisons ==
    pc = "done" =>
        /\ cmp.gt = Bool01(cmp.x > cmp.y)
        /\ cmp.mask_lt = (IF cmp.x < cmp.y THEN AllOnes ELSE 0)
        /\ cmp.mask_ge = (IF cmp.x >= cmp.y THEN AllOnes ELSE 0)

(* ------------------------------- C11 ----------------------------------- *)
\* C11: on every pair of limb values mbedtls_ct_mpi_uint_lt(x, y) is exactly
\* 1 if x < y and exactly 0 otherwise, pairs of different most significant
\* bits and equal pairs included; mbedtls_ct_size_bool_eq(x, y) is exactly 1
\* if x = y and exactly 0 otherwise.
C11_LimbLtAndSizeEq ==
    pc = "done" =>
        /\ cmp.f = "mpi_uint_lt" => cmp.r = Bool01(cmp.x < cmp.y)
        /\ cmp.f = "size_bool_eq" => cmp.r = Bool01(cmp.x = cmp.y)

\* x below y with the top bit in y alone, where the top bit of x - y is 0
C11_Witness ==
    /\ pc = "done"
    /\ cmp.f = "mpi_uint_lt"
    /\ cmp.x < Pow2(LimbBits - 1)
    /\ cmp.y >= Pow2(LimbBits - 1)
    /\ Shr(Wrap(LimbBits, cmp.x - cmp.y), LimbBits - 1) = 0
    /\ cmp.r = 1

(* ------------------------------- C12 ----------------------------------- *)
\* offsetval values the calls made so far were given
CallsMade == cpy.offset_min..(cpy.offsetval - 1)

\* C12: mbedtls_ct_memcpy_offset returns after offset_max - offset_min + 1
\* calls of mbedtls_ct_memcpy_if_eq, with dest[0..len) = src[offset ..
\* offset+len) if offset_min <= offset <= offset_max, and src as it was;
\* the call with c1 = c2 copies src[0..len) to dest and each call with
\* c1 # c2 leaves every byte of dest as it was, so that with offset outside
\* offset_min..offset_max dest ends unchanged.
C12_MemcpyOffset ==
    pc \in {"loop", "done"} =>
        /\ cpy.src = cpy.src0
        /\ cpy.calls = cpy.offsetval - cpy.offset_min
        /\ DOMAIN cpy.dest = 0..(cpy.len - 1)
        /\ \A k \in 0..(cpy.len - 1) :
              cpy.dest[k] = IF cpy.offset \in CallsMade
                            THEN cpy.src0[cpy.offset + k]
                            ELSE cpy.dest0[k]
        /\ (pc = "done" /\ cpy.offset_min <= cpy.offset_max) =>
              /\ cpy.calls = cpy.offset_max - cpy.offset_min + 1
              /\ cpy.offset \in cpy.offset_min..cpy.offset_max =>
                    \A k \in 0..(cpy.len - 1) :
                        cpy.dest[k] = cpy.src0[cpy.offset + k]
              /\ cpy.offset \notin cpy.offset_min..cpy.offset_max =>
                    cpy.dest = cpy.dest0
        /\ (pc = "done" /\ cpy.offset_min > cpy.offset_max) =>
              /\ cpy.calls = 0
              /\ cpy.dest = cpy.dest0

\* three calls, the middle one copying two bytes that differ from those at
\* the other two offsets and from dest
C12_Witness ==
    /\ pc = "done"
    /\ cpy.len = 2
    /\ cpy.offset_min = 0 /\ cpy.offset_max = 2 /\ cpy.offset = 1
    /\ cpy.calls = 3
    /\ cpy.src0[0] # cpy.src0[1]
    /\ cpy.src0[2] # cpy.src0[3]
    /\ cpy.dest[0] = cpy.src0[1]
    /\ cpy.dest[1] = cpy.src0[2]

(* ------------------------------- C13 ----------------------------------- *)
\* the buffer b of t bytes moved k places to the left, zeros coming in
ShiftedLeft(b, t, k) ==
    [j \in 0..(t - 1) |-> IF j + k < t THEN b[j + k] ELSE 0]

\* the accesses of a pass over t bytes: each adjacent pair read and its
\* first byte written, then the last byte read and written
PassSweep(t) ==
    [j \in 1..(3 * (t - 1) + 2) |->
        IF j <= 3 * (t - 1)
        THEN << IF j % 3 = 0 THEN "w" ELSE "r", "input",
                ((j - 1) \div 3) + (IF j % 3 = 2 THEN 1 ELSE 0) >>
        ELSE << IF j = 3 * (t - 1) + 1 THEN "r" ELSE "w", "input", t - 1 >>]

IsAccess(e) == e[1] \in {"r", "w"}

\* C14: at every return *olen <= min(output_max_len, ilen - 11); the offset
\* handed to mbedtls_ct_mem_move_to_left is in 0..plaintext_max_size, also
\* when ilen - pad_count - 3 wraps around; every index read or written in
\* input is in 0..ilen-1 and every index written in output is in
\* 0..output_max_len-1; input[0..11) is never modified.
C14_UnpaddingStaysInBounds ==
    /\ pc = "done" => olen <= Min(output_max_len, ilen - 11)
    /\ pc \in {"moved", "done"} =>
          /\ move_offset >= 0
          /\ move_offset <= plaintext_max_size
          /\ plaintext_max_size = Min(output_max_len, ilen - 11)
    /\ \A j \in 1..Len(trace) :
          IsAccess(trace[j]) =>
              /\ trace[j][2] \in {"input", "output"}
              /\ trace[j][2] = "input" =>
                    /\ trace[j][3] \in 0..(ilen - 1)
                    /\ trace[j][1] = "w" => trace[j][3] >= 11
              /\ trace[j][2] = "output" =>
                    /\ trace[j][1] = "w"
                    /\ trace[j][3] \in 0..(output_max_len - 1)
    /\ DOMAIN input = 0..(ilen - 1)
    /\ \A k \in 0..10 : input[k] = input0[k]

\* a block without a separator: pad_count = ilen - 2, so that
\* ilen - pad_count - 3 wraps to the largest size value, and yet nothing
\* is moved and *olen is the size of the two-byte output
C14_Witness ==
    /\ pc = "done"
    /\ ~HasSeparator(input0, ilen)
    /\ pad_count = ilen - 2
    /\ Wrap(SizeBits, ilen - pad_count - 3) = Pow2(SizeBits) - 1
    /\ plaintext_max_size = 2
    /\ move_offset = 0
    /\ olen = 2

====
